---- MODULE Spec2Model ----
(***************************************************************************)
(* Competitor intelligence agent team (competitor_agent_team.py).          *)
(*                                                                         *)
(* The model covers AnalysisAgent (construction, response parsing, report  *)
(* generation with its mock fallback), ComparisonAgent and                 *)
(* CompetitorIntelligenceTeam (discover_competitors and                    *)
(* generate_intelligence_report).  The crawler, the search provider, the   *)
(* LLM backend and the streamlit layer are collaborators: their answers    *)
(* are inputs drawn from small sets, and every call made to them is kept   *)
(* in a log, in the order the program makes it.                            *)
(*                                                                         *)
(* Python values are tagged records.  A raised exception that leaves an    *)
(* operation is the flag "raised" of that operation's outcome.             *)
(***************************************************************************)
EXTENDS Integers, Sequences, FiniteSets, TLC

VARIABLES
    analysis_agent,  \* CompetitorIntelligenceTeam.analysis_agent (an AnalysisAgent)
    pc,              \* position of the caller: "idle", "enrich" (inside the loop of
                     \* discover_competitors) or "done" (an operation has returned)
    op,              \* the public operation in progress or last returned, with its arguments
    ret,             \* the value the operation returned (NoValue while none)
    raised,          \* TRUE when an exception left the operation
    st,              \* the streamlit calls of the operation, in order
    events,          \* the collaborator calls and progress updates of the operation, in order
    backendLog,      \* outcomes of the backend calls made through the current agent's client
    competitors,     \* discover_competitors: the candidate list being enriched in place
    enriched_competitors, \* discover_competitors: the output list under construction
    idx              \* discover_competitors: loop index i (0-based)

vars == <<analysis_agent, pc, op, ret, raised, st, events, backendLog,
          competitors, enriched_competitors, idx>>

----------------------------------------------------------------------------
(* Bounds of the model *)

\* length of the free-form token sequences used as response texts
MaxJunk == 3
\* generate_analysis_report calls followed on one agent
MaxCalls == 2
\* candidates returned by the search provider
MaxCandidates == 3
\* records handed to generate_intelligence_report
MaxRecords == 2

----------------------------------------------------------------------------
(* Python values *)

\* required_keys of generate_analysis_report, in the order of the list
required_keys ==
    <<"strengths", "weaknesses", "opportunities", "market_gaps",
      "pricing_strategies", "growth_opportunities", "recommendations">>

RequiredKeySet == {required_keys[i] : i \in 1..Len(required_keys)}

\* a key a response may hold besides the required ones
ExtraKey == "summary_note"

\* A flat value: a list of strings, a string (its items are the words it
\* contains), a number, a boolean or None.
Flat(t, items) == [t |-> t, items |-> items]

PyNone == Flat("None", <<>>)

EmptyMap == [k \in {} |-> PyNone]

\* A value as json.loads returns it: a flat value or a dict of flat values.
Val(t, items) == [t |-> t, items |-> items, m |-> EmptyMap]

Dict(m) == [t |-> "dict", items |-> <<>>, m |-> m]

None == Val("None", <<>>)

NoValue == Val("NoValue", <<>>)

Truthy(v) ==
    CASE v.t = "dict" -> DOMAIN v.m # {}
      [] v.t \in {"list", "str"} -> v.items # <<>>
      [] v.t = "num" -> v.items # <<"0">>
      [] v.t = "bool" -> v.items = <<"true">>
      [] OTHER -> FALSE

----------------------------------------------------------------------------
(* Response texts.  A text is a sequence of tokens: an opening brace, a    *)
(* closing brace, one "key": value member of an object (with its comma), a *)
(* complete JSON value that is not an object, or text that is not JSON.    *)

Tok(tk, k, v) == [tk |-> tk, k |-> k, v |-> v]

LB == Tok("lb", "", PyNone)

RB == Tok("rb", "", PyNone)

NOISE == Tok("noise", "", PyNone)

Member(k, v) == Tok("member", k, v)

Atom(v) == Tok("atom", "", v)

\* json.loads: the text is one non-object value, or an object made of
\* members between one pair of braces; a repeated key keeps its last value.
\* Anything else is a JSONDecodeError (ok = FALSE).
JsonLoads(text) ==
    IF Len(text) = 1 /\ text[1].tk = "atom"
    THEN [ok |-> TRUE, val |-> Val(text[1].v.t, text[1].v.items)]
    ELSE IF /\ Len(text) >= 2
            /\ text[1].tk = "lb"
            /\ text[Len(text)].tk = "rb"
            /\ \A i \in 2..(Len(text) - 1) : text[i].tk = "member"
    THEN LET inner == 2..(Len(text) - 1)
             keys == {text[i].k : i \in inner}
             last(k) == CHOOSE i \in inner :
                            /\ text[i].k = k
                            /\ \A j \in inner : text[j].k = k => j <= i
         IN [ok |-> TRUE, val |-> Dict([k \in keys |-> text[last(k)].v])]
    ELSE [ok |-> FALSE, val |-> None]

\* re.match in place of re.search: the span is found only when the text
\* starts with the opening brace
BraceSearch_AtStart(text) ==
    LET closes == {i \in 1..Len(text) : text[i].tk = "rb"}
    IN IF Len(text) = 0 \/ text[1].tk # "lb" \/ closes = {}
       THEN [found |-> FALSE, group |-> <<>>]
       ELSE [found |-> TRUE,
             group |-> SubSeq(text, 1, CHOOSE i \in closes : \A j \in closes : j <= i)]

\* re.search(r'\{.*\}', text, re.DOTALL): the span from the first opening
\* brace to the last closing brace, when that closing brace comes later.
BraceSearch(text) ==
    LET opens == {i \in 1..Len(text) : text[i].tk = "lb"}
        closes == {i \in 1..Len(text) : text[i].tk = "rb"}
    IN IF opens = {} \/ closes = {}
       THEN [found |-> FALSE, group |-> <<>>]
       ELSE LET f == CHOOSE i \in opens : \A j \in opens : i <= j
                l == CHOOSE i \in closes : \A j \in closes : j <= i
            IN IF f < l
               THEN [found |-> TRUE, group |-> SubSeq(text, f, l)]
               ELSE [found |-> FALSE, group |-> <<>>]

\* AnalysisAgent._parse_llm_response; None stands for "could not parse"
\* (and is also what the JSON text null parses to).
_parse_llm_response(response_text) ==
    LET direct == JsonLoads(response_text)
    IN IF direct.ok
       THEN direct.val
       ELSE LET json_match == BraceSearch(response_text)
            IN IF json_match.found
               THEN LET inner == JsonLoads(json_match.group)
                    IN IF inner.ok THEN inner.val ELSE None
               ELSE None

----------------------------------------------------------------------------
(* Strings are sequences of characters; a dict is a function from the keys *)
(* it holds; a field of a competitor record is a string, None or the       *)
(* metadata dict.                                                          *)

Chars(n) == [i \in 1..n |-> "a"]

NA == <<"N", "/", "A">>

Ellipsis == <<".", ".", ".">>

Unknown == <<"U", "n", "k", "n", "o", "w", "n">>

CrawlingFailed ==
    <<"C", "r", "a", "w", "l", "i", "n", "g", " ", "f", "a", "i", "l", "e", "d">>

NoUrlProvided ==
    <<"N", "o", " ", "U", "R", "L", " ", "p", "r", "o", "v", "i", "d", "e", "d">>

\* a value held under a metadata key: a string, a list of strings or None
MetaVal(t, s, l) == [t |-> t, s |-> s, l |-> l]

MStr(s) == MetaVal("str", s, <<>>)

MList(l) == MetaVal("list", <<>>, l)

MNone == MetaVal("None", <<>>, <<>>)

EmptyMeta == [k \in {} |-> MNone]

FieldVal(t, s, d) == [t |-> t, s |-> s, d |-> d]

Str(s) == FieldVal("str", s, EmptyMeta)

NoneField == FieldVal("None", <<>>, EmptyMeta)

MetaDict(d) == FieldVal("dict", <<>>, d)

\* dict.get(key, default)
Get(d, key, default) == IF key \in DOMAIN d THEN d[key] ELSE default

\* dict.update / item assignment: d with the keys of u set to u's values
Update(d, u) ==
    [k \in DOMAIN d \cup DOMAIN u |-> IF k \in DOMAIN u THEN u[k] ELSE d[k]]

\* an "is not None" test in place of the truth value
FieldTruthy_NotNone(v) == v.t # "None"

\* truth value of a field: a non-empty string or a non-empty dict
FieldTruthy(v) ==
    CASE v.t = "str" -> v.s # <<>>
      [] v.t = "dict" -> DOMAIN v.d # {}
      [] OTHER -> FALSE

\* one streamlit call
Signal(kind, msg) == [kind |-> kind, msg |-> msg, frac |-> <<0, 1>>]

\* progress_bar.progress(frac, text=...): the fraction num/den as <<num, den>>
Progress(frac, msg) == [kind |-> "progress", msg |-> msg, frac |-> frac]

\* one call to a collaborator as it happens in time: the collaborator, the
\* argument passed and what the collaborator did (for the loop of
\* discover_competitors also each update of the progress bar and of a candidate)
Event(e, who, arg, res) == [e |-> e, who |-> who, arg |-> arg, res |-> res]

----------------------------------------------------------------------------
(* AnalysisAgent *)

\* str.lower() on the provider names the model draws from
Lower(provider) ==
    CASE provider = "OpenAI" -> "openai"
      [] provider = "DeepSeek" -> "deepseek"
      [] OTHER -> provider

\* AnalysisAgent.BASE_URLS
BASE_URLS == [p \in {"deepseek"} |-> "https://api.deepseek.com/v1"]

\* the providers __init__ has a branch for
SupportedProviders == {"openai", "anthropic", "google"} \cup DOMAIN BASE_URLS

\* the class of the client object __init__ builds for provider p
ClientClass(p) ==
    CASE p = "openai" -> "OpenAI"
      [] p = "anthropic" -> "Anthropic"
      [] p = "google" -> "GenerativeModel"
      [] OTHER -> "AzureOpenAI"

\* __init__ without its try/except: an exception raised while the client is
\* built leaves the constructor
AnalysisAgent_NoTry(provider, api_key, model_id, ctor_raises) ==
    LET p == Lower(provider)
        base == [provider |-> p, api_key |-> api_key, model_id |-> model_id,
                 base_url |-> Get(BASE_URLS, p, "None"), client |-> "None"]
    IN IF ~Truthy(model_id)
       THEN [self |-> base, raised |-> FALSE,
             st |-> <<Signal("warning", "No model selected for provider. Analysis may fail or use mock data.")>>]
       ELSE IF ~Truthy(api_key)
       THEN [self |-> base, raised |-> FALSE, st |-> <<>>]
       ELSE IF ctor_raises \/ p \notin SupportedProviders
       THEN [self |-> base, raised |-> TRUE, st |-> <<>>]
       ELSE [self |-> [base EXCEPT !.client = ClientClass(p)], raised |-> FALSE, st |-> <<>>]

\* AnalysisAgent.__init__; ctor_raises tells whether building the provider's
\* client object raises.  self is the agent built, its client "None" or the
\* class of the client object; raised tells whether an exception leaves the
\* constructor; st holds the streamlit calls made.
AnalysisAgent(provider, api_key, model_id, ctor_raises) ==
    LET p == Lower(provider)
        base == [provider |-> p, api_key |-> api_key, model_id |-> model_id,
                 base_url |-> Get(BASE_URLS, p, "None"), client |-> "None"]
        failed == [self |-> base, raised |-> FALSE,
                   st |-> <<Signal("error", "Failed to initialize LLM client")>>]
    IN IF ~Truthy(model_id)
       THEN [self |-> base, raised |-> FALSE,
             st |-> <<Signal("warning", "No model selected for provider. Analysis may fail or use mock data.")>>]
       ELSE IF ~Truthy(api_key)
       THEN [self |-> base, raised |-> FALSE, st |-> <<>>]
       ELSE IF p \in {"openai", "anthropic", "google"}
       THEN IF ctor_raises
            THEN failed
            ELSE [self |-> [base EXCEPT !.client = ClientClass(p)], raised |-> FALSE,
                  st |-> <<>>]
       ELSE IF p \in DOMAIN BASE_URLS
       THEN IF base.base_url = "None" \/ ctor_raises
            THEN failed
            ELSE [self |-> [base EXCEPT !.client = ClientClass(p)], raised |-> FALSE,
                  st |-> <<>>]
       ELSE failed

\* AnalysisAgent(): the defaults of __init__
DefaultAnalysisAgent == AnalysisAgent("openai", PyNone, PyNone, FALSE).self

\* AnalysisAgent._generate_mock_report
_generate_mock_report ==
    Dict([k \in RequiredKeySet |->
        CASE k = "strengths" ->
                Flat("list", <<"Mock: Strong online presence",
                               "Mock: Innovative product lineup">>)
          [] k = "weaknesses" ->
                Flat("list", <<"Mock: Limited market reach",
                               "Mock: Price point concerns">>)
          [] k = "opportunities" ->
                Flat("list", <<"Mock: Expand to new markets",
                               "Mock: Develop budget offerings">>)
          [] k = "market_gaps" ->
                Flat("list", <<"Mock: Underserved budget segment">>)
          [] k = "pricing_strategies" ->
                Flat("list", <<"Mock: Consider freemium model">>)
          [] k = "growth_opportunities" ->
                Flat("list", <<"Mock: International expansion">>)
          [] OTHER ->
                Flat("list", <<"Mock: Develop a stronger social media presence">>)])

\* AnalysisAgent._generate_prompt: the instruction naming the keys, then one
\* block per competitor, in index order, with 'N/A' for an absent field and
\* the metadata only when the record holds it.
_generate_prompt(company_data) ==
    [keys |-> required_keys,
     blocks |-> [i \in 1..Len(company_data) |->
        [n |-> i,
         name |-> Get(company_data[i], "name", Str(NA)),
         url |-> Get(company_data[i], "url", Str(NA)),
         description |-> Get(company_data[i], "description", Str(NA)),
         summary |-> Get(company_data[i], "summary", Str(NA)),
         metadata |-> IF "metadata" \in DOMAIN company_data[i]
                      THEN <<company_data[i]["metadata"]>>
                      ELSE <<>>]]]

\* "key in analysis_data": a key of a dict, an element of a list, a substring
\* of a string; a TypeError (raises) on a number or a boolean.
Contains(key, v) ==
    CASE v.t = "dict" -> [raises |-> FALSE, is |-> key \in DOMAIN v.m]
      [] v.t \in {"list", "str"} ->
            [raises |-> FALSE, is |-> \E i \in 1..Len(v.items) : v.items[i] = key]
      [] OTHER -> [raises |-> TRUE, is |-> FALSE]

\* the loop "for key in required_keys: analysis_data.setdefault(key, ['N/A'])"
SetDefaults(m) ==
    [k \in DOMAIN m \cup RequiredKeySet |->
        IF k \in DOMAIN m THEN m[k] ELSE Flat("list", <<"N/A">>)]

\* what one operation leaves behind: the value returned, whether an
\* exception left it, its streamlit calls and its collaborator calls
Outcome(r, x, s, e) == [ret |-> r, raised |-> x, st |-> s, events |-> e]

\* the same for a method of AnalysisAgent, with the agent as the method
\* leaves it
AgentOutcome(agent, r, x, s, e) ==
    [self |-> agent, ret |-> r, raised |-> x, st |-> s, events |-> e]

\* the except clause missing: the exception leaves generate_analysis_report
GenerateFailed_Propagates(agent, s, e) ==
    AgentOutcome(agent, None, TRUE, s, e)

\* the except clause also dropping the client that failed
GenerateFailed_DropsClient(agent, s, e) ==
    AgentOutcome([agent EXCEPT !.client = "None"], _generate_mock_report, FALSE,
                 Append(s, Signal("error", "Error generating analysis report")), e)

\* the except clause of generate_analysis_report
GenerateFailed(agent, s, e) ==
    AgentOutcome(agent, _generate_mock_report, FALSE,
                 Append(s, Signal("error", "Error generating analysis report")), e)

\* the part of generate_analysis_report after the backend has answered with
\* analysis_json_str (lines 193-208); e holds the backend call made
ParseAndValidate(agent, analysis_json_str, e) ==
    IF analysis_json_str.kind = "text" /\ analysis_json_str.text # <<>>
    THEN LET analysis_data == _parse_llm_response(analysis_json_str.text)
         IN IF Truthy(analysis_data)
            THEN IF Contains(required_keys[1], analysis_data).raises
                 THEN GenerateFailed(agent, <<>>, e)
                 ELSE IF \A key \in RequiredKeySet : Contains(key, analysis_data).is
                 THEN AgentOutcome(agent, analysis_data, FALSE, <<>>, e)
                 ELSE LET w == <<Signal("warning", "LLM response missing some expected analysis keys")>>
                      IN IF analysis_data.t = "dict"
                         THEN AgentOutcome(agent, Dict(SetDefaults(analysis_data.m)),
                                           FALSE, w, e)
                         ELSE GenerateFailed(agent, w, e)
            ELSE AgentOutcome(agent, _generate_mock_report, FALSE,
                              <<Signal("error", "Could not parse valid JSON")>>, e)
    ELSE AgentOutcome(agent, _generate_mock_report, FALSE,
                      <<Signal("error", "Received empty response")>>, e)

\* the test without its "not self.client" part
NotConfigured_IgnoresClient(agent) ==
    ~Truthy(agent.model_id) \/ ~Truthy(agent.api_key)

\* the test "not self.client or not self.model_id or not self.api_key"
NotConfigured(agent) ==
    agent.client = "None" \/ ~Truthy(agent.model_id) \/ ~Truthy(agent.api_key)

\* AnalysisAgent.generate_analysis_report; backend is what the provider's
\* client does when called: it raises, or answers with a text (or no text)
generate_analysis_report(agent, company_data, backend) ==
    IF NotConfigured(agent)
    THEN AgentOutcome(agent, _generate_mock_report, FALSE,
                      <<Signal("warning", "LLM provider not configured correctly")>>, <<>>)
    ELSE LET prompt == _generate_prompt(company_data)
         IN IF agent.provider \in {"openai", "anthropic", "google"} \cup DOMAIN BASE_URLS
            THEN LET e == <<Event("backend", agent.provider, prompt, backend)>>
                 IN IF backend.kind = "raise"
                    THEN GenerateFailed(agent, <<>>, e)
                    ELSE ParseAndValidate(agent, backend, e)
            ELSE ParseAndValidate(agent, [kind |-> "none", text |-> <<>>], <<>>)

----------------------------------------------------------------------------
(* Inputs of the analysis operations *)

\* the provider names configure_agents may be given: the four the code knows,
\* one of them in another case, no name and a name of no branch
Providers == {"", "openai", "OpenAI", "anthropic", "google", "deepseek", "mistral"}

\* api_key and model_id as the caller may pass them: None, '' or a string
Credentials == {PyNone, Flat("str", <<>>), Flat("str", <<"k">>)}

ListX == Flat("list", <<"x">>)

\* values a response may hold under a key instead of a non-empty list
OddVals == {Flat("list", <<>>), Flat("str", <<"s">>)}

\* Response objects: every subset of the required keys, each key holding
\* ["x"]; the same with one of the keys holding an odd value instead; the
\* same with one more key that is not a required one.
ResponseObjects ==
    LET plain == {[k \in P |-> ListX] : P \in SUBSET RequiredKeySet}
        odd == UNION {{[m EXCEPT ![k] = v] : k \in DOMAIN m, v \in OddVals} : m \in plain}
        extra == {Update(m, [k \in {ExtraKey} |-> ListX]) : m \in plain}
    IN plain \cup odd \cup extra

\* the text of an object: its members between braces, in the order of
\* required_keys, a further key last
ObjectText(m) ==
    LET InM(k) == k \in DOMAIN m
        ks == SelectSeq(Append(required_keys, ExtraKey), InM)
    IN <<LB>> \o [i \in 1..Len(ks) |-> Member(ks[i], m[ks[i]])] \o <<RB>>

RECURSIVE SeqsUpTo(_, _)
\* the sequences over S of length at most n
SeqsUpTo(S, n) ==
    IF n = 0
    THEN {<<>>}
    ELSE LET shorter == SeqsUpTo(S, n - 1)
         IN shorter \cup {Append(q, x) : q \in shorter, x \in S}

\* JSON values that are not objects
AtomTexts ==
    {<<Atom(v)>> : v \in {PyNone, Flat("num", <<"0">>), Flat("num", <<"5">>),
                          Flat("bool", <<"true">>), Flat("list", <<>>), ListX,
                          Flat("list", required_keys), Flat("str", <<>>),
                          Flat("str", <<"s">>), Flat("str", required_keys)}}

\* the response objects holding all seven required keys
CompleteObjects == {m \in ResponseObjects : RequiredKeySet \subseteq DOMAIN m}

\* the texts a backend may answer with: '' and every short sequence of
\* braces, noise and members; every response object as clean JSON; the
\* objects holding only lists also inside text without braces; the complete
\* objects after and before up to two pieces of such text; the values that
\* are not objects
ResponseTexts ==
    SeqsUpTo({LB, RB, NOISE, Member("strengths", ListX)}, MaxJunk)
    \cup {ObjectText(m) : m \in ResponseObjects}
    \cup {<<NOISE>> \o ObjectText([k \in P |-> ListX]) \o <<NOISE>> :
              P \in SUBSET RequiredKeySet}
    \cup {pre \o ObjectText(m) \o suf :
              pre \in SeqsUpTo({NOISE}, 2), suf \in SeqsUpTo({NOISE}, 2),
              m \in CompleteObjects}
    \cup AtomTexts

\* what the backend call does: it raises, it answers without a text, or it
\* answers with a text
Backends ==
    {[kind |-> "raise", text |-> <<>>], [kind |-> "none", text |-> <<>>]}
    \cup {[kind |-> "text", text |-> t] : t \in ResponseTexts}

BaseRecord ==
    [k \in {"name", "url", "description", "summary", "metadata"} |->
        CASE k = "name" -> Str(<<"A">>)
          [] k = "url" -> Str(<<"h", "t", "t", "p", ":", "/", "/", "a">>)
          [] k = "description" -> Str(Chars(5))
          [] k = "summary" -> Str(Chars(7))
          [] OTHER -> MetaDict([j \in {"technologies", "team_size", "founded"} |->
                          IF j = "technologies"
                          THEN MList(<<<<"R">>, <<"A">>>>)
                          ELSE MStr(<<"5">>)])]

\* a record as the search provider returns it, before enrichment
BareRecord == [k \in {"name", "description"} |-> BaseRecord[k]]

\* the record lists handed to generate_analysis_report
GenRecordLists == {<<>>, <<BaseRecord>>, <<BaseRecord, BareRecord>>}

----------------------------------------------------------------------------
(* State machine *)

NoOp == [name |-> "none", args |-> <<>>]

Init ==
    /\ analysis_agent = DefaultAnalysisAgent
    /\ pc = "idle"
    /\ op = NoOp
    /\ ret = NoValue
    /\ raised = FALSE
    /\ st = <<>>
    /\ events = <<>>
    /\ backendLog = <<>>
    /\ competitors = <<>>
    /\ enriched_competitors = <<>>
    /\ idx = 0

\* the operation returns to its caller with outcome out
Returns(out) ==
    /\ pc' = "done"
    /\ ret' = out.ret
    /\ raised' = out.raised
    /\ st' = out.st
    /\ events' = out.events

\* CompetitorIntelligenceTeam.configure_agents: a new AnalysisAgent replaces
\* the current one (the current one stays when the constructor raises)
Configure ==
    /\ pc = "idle"
    /\ \E provider \in Providers, api_key \in Credentials, model_id \in Credentials,
          ctor_raises \in BOOLEAN :
          LET out == AnalysisAgent(provider, api_key, model_id, ctor_raises)
          IN /\ op' = [name |-> "configure",
                       args |-> [llm_provider |-> provider, llm_api_key |-> api_key,
                                 llm_model_id |-> model_id, ctor_raises |-> ctor_raises]]
             /\ analysis_agent' = IF out.raised THEN analysis_agent ELSE out.self
             /\ Returns([ret |-> IF out.raised THEN NoValue ELSE None,
                         raised |-> out.raised, st |-> out.st, events |-> <<>>])
    /\ backendLog' = <<>>
    /\ UNCHANGED <<competitors, enriched_competitors, idx>>

\* what a call of generate_analysis_report adds to the log of backend
\* calls: nothing when no call was made, else whether the call led to the
\* except clause or a fallback ("failed") or to a parsed report ("ok")
LogOf(out) ==
    IF out.events = <<>>
    THEN <<>>
    ELSE IF \E i \in 1..Len(out.st) : out.st[i].kind = "error"
    THEN <<"failed">>
    ELSE <<"ok">>

\* a call of analysis_agent.generate_analysis_report(company_data)
Generate ==
    /\ pc = "idle"
    /\ Len(backendLog) < MaxCalls
    /\ \E company_data \in GenRecordLists :
          /\ op' = [name |-> "generate", args |-> company_data]
          /\ \/ /\ NotConfigured(analysis_agent)
                /\ LET out == generate_analysis_report(analysis_agent, company_data,
                                                       [kind |-> "none", text |-> <<>>])
                   IN /\ Returns(out)
                      /\ analysis_agent' = out.self
                      /\ backendLog' = backendLog \o LogOf(out)
             \/ /\ ~NotConfigured(analysis_agent)
                /\ \E backend \in Backends :
                      LET out == generate_analysis_report(analysis_agent, company_data, backend)
                      IN /\ Returns(out)
                         /\ analysis_agent' = out.self
                         /\ backendLog' = backendLog \o LogOf(out)
    /\ UNCHANGED <<competitors, enriched_competitors, idx>>

\* the caller has taken the result; the next operation may start
Return ==
    /\ pc = "done"
    /\ pc' = "idle"
    /\ op' = NoOp
    /\ ret' = NoValue
    /\ raised' = FALSE
    /\ st' = <<>>
    /\ events' = <<>>
    /\ competitors' = <<>>
    /\ enriched_competitors' = <<>>
    /\ idx' = 0
    /\ UNCHANGED <<analysis_agent, backendLog>>

NextAnalysis == Configure \/ Generate \/ Return

\* the analysis agent under configuration and generate calls
SpecAnalysis == Init /\ [][NextAnalysis]_vars

----------------------------------------------------------------------------
(* CompetitorIntelligenceTeam.discover_competitors *)

\* s starts with p
StartsWith(s, p) == Len(s) >= Len(p) /\ SubSeq(s, 1, Len(p)) = p

\* re.search in place of re.match: the scheme anywhere in the text
MatchesScheme_Anywhere(input_text) ==
    \E k \in 1..Len(input_text) :
        \/ StartsWith(SubSeq(input_text, k, Len(input_text)),
                      <<"h", "t", "t", "p", ":", "/", "/">>)
        \/ StartsWith(SubSeq(input_text, k, Len(input_text)),
                      <<"h", "t", "t", "p", "s", ":", "/", "/">>)

\* re.match(r'^https?://', input_text)
MatchesScheme(input_text) ==
    \/ StartsWith(input_text, <<"h", "t", "t", "p", ":", "/", "/">>)
    \/ StartsWith(input_text, <<"h", "t", "t", "p", "s", ":", "/", "/">>)

\* a <= b for fractions <<numerator, denominator>> with positive denominators
FracLeq(a, b) == a[1] * b[2] <= b[1] * a[2]

One == <<1, 1>>

\* the text of the progress bar while candidate k of n is crawled
CrawlingLabel(name, k, n) == [text |-> "Crawling", name |-> name, k |-> k, n |-> n]

\* a fixed text of the progress bar
FixedLabel(text) == [text |-> text, name |-> <<>>, k |-> 0, n |-> 0]

EmptyRecord == [k \in {} |-> NoneField]

\* what the crawler does for one URL: crawl_website raises (or
\* summarize_content does), or it returns data whose content
\* summarize_content turns into summary
CrawlResult(kind, data, summary) == [kind |-> kind, data |-> data, summary |-> summary]

NoCrawl == CrawlResult("none", EmptyRecord, <<>>)

\* the prelude without the test for an empty candidate list: the loop is
\* entered with no candidate
DiscoverPrelude_NoEarlyReturn(input_text, is_url, own, search) ==
    LET End(r, x, s, e) ==
            [returned |-> TRUE, ret |-> r, raised |-> x, st |-> s, events |-> e,
             competitors |-> <<>>]
        Empty == Val("list", <<>>)
        Search(description, s, e) ==
            LET e2 == Append(e, Event("search", 0, description, search))
                p0 == Progress(<<0, 1>>, FixedLabel("Crawling competitor websites..."))
            IN IF search.kind = "raise"
               THEN End(NoValue, TRUE, s, e2)
               ELSE [returned |-> FALSE, ret |-> NoValue, raised |-> FALSE,
                     st |-> Append(s, p0),
                     events |-> Append(e2, Event("progress", 0, p0, NoCrawl)),
                     competitors |-> search.list]
        Described(description, s, e) ==
            IF ~FieldTruthy(description)
            THEN End(Empty, FALSE,
                     Append(s, Signal("error", "Cannot search for competitors without a description or URL.")),
                     e)
            ELSE Search(description, s, e)
    IN IF is_url
       THEN IF ~MatchesScheme(input_text.s)
            THEN End(Empty, FALSE,
                     <<Signal("error", "Invalid URL provided. Please include http:// or https://")>>,
                     <<>>)
            ELSE LET e == <<Event("crawl", 0, input_text, own)>>
                 IN IF own.kind = "raise"
                    THEN End(NoValue, TRUE, <<>>, e)
                    ELSE LET description == Get(own.data, "description", Str(<<>>))
                         IN IF ~FieldTruthy(description)
                            THEN Described(Get(own.data, "title", Str(<<>>)),
                                           <<Signal("warning", "Could not extract description from website for competitor search.")>>,
                                           e)
                            ELSE Described(description, <<>>, e)
       ELSE Described(input_text, <<>>, <<>>)

\* discover_competitors up to the start of its loop (lines 270-293); own is
\* what the crawler does for the caller's own URL, search what the search
\* provider does.  returned tells whether the operation has ended there.
DiscoverPrelude(input_text, is_url, own, search) ==
    LET End(r, x, s, e) ==
            [returned |-> TRUE, ret |-> r, raised |-> x, st |-> s, events |-> e,
             competitors |-> <<>>]
        Empty == Val("list", <<>>)
        Search(description, s, e) ==
            LET e2 == Append(e, Event("search", 0, description, search))
                p0 == Progress(<<0, 1>>, FixedLabel("Crawling competitor websites..."))
                p1 == Progress(One, FixedLabel("No competitors found to crawl."))
            IN IF search.kind = "raise"
               THEN End(NoValue, TRUE, s, e2)
               ELSE IF Len(search.list) = 0
               THEN End(Empty, FALSE, s \o <<p0, p1>>,
                        e2 \o <<Event("progress", 0, p0, NoCrawl),
                                Event("progress", 0, p1, NoCrawl)>>)
               ELSE [returned |-> FALSE, ret |-> NoValue, raised |-> FALSE,
                     st |-> Append(s, p0),
                     events |-> Append(e2, Event("progress", 0, p0, NoCrawl)),
                     competitors |-> search.list]
        Described(description, s, e) ==
            IF ~FieldTruthy(description)
            THEN End(Empty, FALSE,
                     Append(s, Signal("error", "Cannot search for competitors without a description or URL.")),
                     e)
            ELSE Search(description, s, e)
    IN IF is_url
       THEN IF ~MatchesScheme(input_text.s)
            THEN End(Empty, FALSE,
                     <<Signal("error", "Invalid URL provided. Please include http:// or https://")>>,
                     <<>>)
            ELSE LET e == <<Event("crawl", 0, input_text, own)>>
                 IN IF own.kind = "raise"
                    THEN End(NoValue, TRUE, <<>>, e)
                    ELSE LET description == Get(own.data, "description", Str(<<>>))
                         IN IF ~FieldTruthy(description)
                            THEN Described(Get(own.data, "title", Str(<<>>)),
                                           <<Signal("warning", "Could not extract description from website for competitor search.")>>,
                                           e)
                            ELSE Described(description, <<>>, e)
       ELSE Described(input_text, <<>>, <<>>)

\* the pass without its try/except: a failing crawl leaves the loop
EnrichOne_NoTry(competitor, i, n, crawl) ==
    LET name == Get(competitor, "name", Str(Unknown))
        url == Get(competitor, "url", NoneField)
        p == Progress(<<i, n>>, CrawlingLabel(name, i, n))
        pe == Event("progress", i, p, NoCrawl)
        Attach(summary, metadata) ==
            Update(competitor, [k \in {"summary", "metadata"} |->
                                   IF k = "summary" THEN summary ELSE metadata])
    IN IF FieldTruthy(url)
       THEN IF crawl.kind = "raise"
            THEN [competitor |-> competitor, raised |-> TRUE,
                  st |-> <<p>>,
                  events |-> <<pe, Event("crawl", i, url, crawl)>>]
            ELSE LET c == Attach(Str(crawl.summary),
                                 Get(crawl.data, "metadata", MetaDict(EmptyMeta)))
                 IN [competitor |-> c, raised |-> FALSE,
                     st |-> <<p>>,
                     events |-> <<pe, Event("crawl", i, url, crawl), Event("attach", i, c, crawl)>>]
       ELSE LET c == Attach(Str(NoUrlProvided), MetaDict(EmptyMeta))
            IN [competitor |-> c, raised |-> FALSE,
                st |-> <<p>>,
                events |-> <<pe, Event("attach", i, c, NoCrawl)>>]

\* the pass with the progress bar updated at its end, once the candidate
\* has been crawled and updated
EnrichOne_ProgressLast(competitor, i, n, crawl) ==
    LET name == Get(competitor, "name", Str(Unknown))
        url == Get(competitor, "url", NoneField)
        p == Progress(<<i, n>>, CrawlingLabel(name, i, n))
        pe == Event("progress", i, p, NoCrawl)
        Attach(summary, metadata) ==
            Update(competitor, [k \in {"summary", "metadata"} |->
                                   IF k = "summary" THEN summary ELSE metadata])
    IN IF FieldTruthy(url)
       THEN IF crawl.kind = "raise"
            THEN LET c == Attach(Str(CrawlingFailed), MetaDict(EmptyMeta))
                 IN [competitor |-> c, raised |-> FALSE,
                     st |-> <<Signal("warning", "Could not crawl"), p>>,
                     events |-> <<Event("crawl", i, url, crawl), Event("attach", i, c, crawl), pe>>]
            ELSE LET c == Attach(Str(crawl.summary),
                                 Get(crawl.data, "metadata", MetaDict(EmptyMeta)))
                 IN [competitor |-> c, raised |-> FALSE,
                     st |-> <<p>>,
                     events |-> <<Event("crawl", i, url, crawl), Event("attach", i, c, crawl), pe>>]
       ELSE LET c == Attach(Str(NoUrlProvided), MetaDict(EmptyMeta))
            IN [competitor |-> c, raised |-> FALSE,
                st |-> <<p>>,
                events |-> <<Event("attach", i, c, NoCrawl), pe>>]

\* one pass of the loop over competitors (lines 295-316) for the candidate
\* at position i (from 1) of n; crawl is what the crawler does for its URL.
\* The result holds the candidate as updated, whether an exception left the
\* pass, and the streamlit calls and the events of the pass in the order
\* they happen.
EnrichOne(competitor, i, n, crawl) ==
    LET name == Get(competitor, "name", Str(Unknown))
        url == Get(competitor, "url", NoneField)
        p == Progress(<<i, n>>, CrawlingLabel(name, i, n))
        pe == Event("progress", i, p, NoCrawl)
        Attach(summary, metadata) ==
            Update(competitor, [k \in {"summary", "metadata"} |->
                                   IF k = "summary" THEN summary ELSE metadata])
    IN IF FieldTruthy(url)
       THEN IF crawl.kind = "raise"
            THEN LET c == Attach(Str(CrawlingFailed), MetaDict(EmptyMeta))
                 IN [competitor |-> c, raised |-> FALSE,
                     st |-> <<p, Signal("warning", "Could not crawl")>>,
                     events |-> <<pe, Event("crawl", i, url, crawl), Event("attach", i, c, crawl)>>]
            ELSE LET c == Attach(Str(crawl.summary),
                                 Get(crawl.data, "metadata", MetaDict(EmptyMeta)))
                 IN [competitor |-> c, raised |-> FALSE,
                     st |-> <<p>>,
                     events |-> <<pe, Event("crawl", i, url, crawl), Event("attach", i, c, crawl)>>]
       ELSE LET c == Attach(Str(NoUrlProvided), MetaDict(EmptyMeta))
            IN [competitor |-> c, raised |-> FALSE,
                st |-> <<p>>,
                events |-> <<pe, Event("attach", i, c, NoCrawl)>>]

----------------------------------------------------------------------------
(* Inputs of discover_competitors *)

HttpA == <<"h", "t", "t", "p", ":", "/", "/", "a">>

\* the texts the caller may pass: '', 'acme', 'not-a-url', 'xhttp://a',
\* 'HTTP://a', 'http:/a', 'http://a', 'https://a'
InputTexts ==
    {Str(<<>>),
     Str(<<"a", "c", "m", "e">>),
     Str(<<"n", "o", "t", "-", "a", "-", "u", "r", "l">>),
     Str(<<"x">> \o HttpA),
     Str(<<"H", "T", "T", "P", ":", "/", "/", "a">>),
     Str(<<"h", "t", "t", "p", ":", "/", "a">>),
     Str(HttpA),
     Str(<<"h", "t", "t", "p", "s", ":", "/", "/", "a">>)}

FullMetadata ==
    MetaDict([j \in {"technologies", "team_size", "founded"} |->
                 IF j = "technologies" THEN MList(<<<<"R">>, <<"A">>>>) ELSE MStr(<<"5">>)])

\* what the crawler may do for the caller's own URL: raise, or return data
\* whose description and title are each absent, None, '' or a text
OwnCrawls ==
    {CrawlResult("raise", EmptyRecord, <<>>)}
    \cup {CrawlResult("data", d, <<>>) :
            d \in UNION {[K -> {NoneField, Str(<<>>), Str(<<"d">>)}] :
                            K \in SUBSET {"description", "title"}}}

\* what the crawler may do for a candidate's URL: raise, return data with
\* content and metadata, or return data with neither
CandidateCrawls ==
    {CrawlResult("raise", EmptyRecord, <<>>),
     CrawlResult("data", [k \in {"content", "metadata"} |->
                             IF k = "content" THEN Str(Chars(9)) ELSE FullMetadata],
                 Chars(7)),
     CrawlResult("data", EmptyRecord, Chars(3))}

Digit(i) == <<"1", "2", "3", "4", "5", "6", "7", "8", "9">>[i]

\* the candidate at position i of the search result: with name and URL,
\* without the url key, or without the name key and with an empty URL
Candidate(i, kind) ==
    LET full == [k \in {"name", "url", "description"} |->
                    CASE k = "name" -> Str(<<"C", Digit(i)>>)
                      [] k = "url" -> Str(HttpA \o <<Digit(i)>>)
                      [] OTHER -> Str(Chars(4))]
    IN CASE kind = "url" -> full
         [] kind = "nourl" -> [k \in {"name", "description"} |-> full[k]]
         [] OTHER -> [k \in {"url", "description"} |->
                         IF k = "url" THEN Str(<<>>) ELSE full[k]]

CandidateLists ==
    UNION {{[i \in 1..n |-> Candidate(i, kinds[i])] :
               kinds \in [1..n -> {"url", "nourl", "emptyurl"}]} : n \in 0..MaxCandidates}

\* what the search provider may do: raise, or return a list of candidates
Searches ==
    {[kind |-> "raise", list |-> <<>>]}
    \cup {[kind |-> "list", list |-> l] : l \in CandidateLists}

----------------------------------------------------------------------------
(* discover_competitors as the caller sees it *)

\* discover_competitors(input_text, is_url) up to its loop
Discover ==
    /\ pc = "idle"
    /\ \E input_text \in InputTexts, is_url \in BOOLEAN, own \in OwnCrawls,
          search \in Searches :
          LET d == DiscoverPrelude(input_text, is_url, own, search)
          IN /\ op' = [name |-> "discover",
                       args |-> [input_text |-> input_text, is_url |-> is_url]]
             /\ pc' = IF d.returned THEN "done" ELSE "enrich"
             /\ ret' = d.ret
             /\ raised' = d.raised
             /\ st' = d.st
             /\ events' = d.events
             /\ competitors' = d.competitors
    /\ enriched_competitors' = <<>>
    /\ idx' = 0
    /\ UNCHANGED <<analysis_agent, backendLog>>

\* one pass of the loop of discover_competitors
Enrich ==
    /\ pc = "enrich"
    /\ idx < Len(competitors)
    /\ \E crawl \in CandidateCrawls :
          LET r == EnrichOne(competitors[idx + 1], idx + 1, Len(competitors), crawl)
          IN /\ st' = st \o r.st
             /\ events' = events \o r.events
             /\ IF r.raised
                THEN /\ pc' = "done"
                     /\ raised' = TRUE
                     /\ UNCHANGED <<competitors, enriched_competitors, idx>>
                ELSE /\ pc' = pc
                     /\ raised' = raised
                     /\ competitors' = [competitors EXCEPT ![idx + 1] = r.competitor]
                     /\ enriched_competitors' = Append(enriched_competitors, r.competitor)
                     /\ idx' = idx + 1
    /\ UNCHANGED <<analysis_agent, op, ret, backendLog>>

\* the end of discover_competitors after its loop (lines 318-319)
DiscoverReturn ==
    /\ pc = "enrich"
    /\ idx = Len(competitors)
    /\ LET p == Progress(One, FixedLabel("Competitor crawling complete."))
       IN /\ st' = Append(st, p)
          /\ events' = Append(events, Event("progress", 0, p, NoCrawl))
    /\ ret' = Val("list", enriched_competitors)
    /\ pc' = "done"
    /\ UNCHANGED <<analysis_agent, op, raised, backendLog, competitors,
                   enriched_competitors, idx>>

NextDiscover == Discover \/ Enrich \/ DiscoverReturn \/ Return

\* discover_competitors called again and again
SpecDiscover == Init /\ [][NextDiscover]_vars

----------------------------------------------------------------------------
(* ComparisonAgent and generate_intelligence_report *)

\* the character budget of the Description and Summary columns
TruncLen == 100

RECURSIVE Join(_, _)
\* sep.join(l)
Join(sep, l) ==
    IF Len(l) = 0
    THEN <<>>
    ELSE IF Len(l) = 1
    THEN l[1]
    ELSE l[1] \o sep \o Join(sep, Tail(l))

CommaSpace == <<",", " ">>

\* s[:100] + "..."
Shorten(s) == SubSeq(s, 1, IF Len(s) < TruncLen THEN Len(s) ELSE TruncLen) \o Ellipsis

Columns ==
    <<"Company", "Website", "Description", "Summary", "Technologies", "Team Size", "Founded">>

DataFrame(columns, rows) == [t |-> "DataFrame", columns |-> columns, rows |-> rows]

\* the body of the loop of create_comparison_table for one record: the row
\* appended, or raises when the record makes an expression of the body fail
\* (metadata that is no dict, technologies that is None, a description or a
\* summary that is no string)
RowOf(company) ==
    LET metadata == Get(company, "metadata", MetaDict(EmptyMeta))
        description == Get(company, "description", Str(NA))
        summary == Get(company, "summary", Str(NA))
        NoRow == [raises |-> TRUE, row |-> <<>>]
    IN IF metadata.t # "dict"
       THEN NoRow
       ELSE LET technologies == Get(metadata.d, "technologies", MList(<<NA>>))
            IN IF technologies.t = "None" \/ description.t # "str" \/ summary.t # "str"
               THEN NoRow
               ELSE [raises |-> FALSE,
                     row |-> [Company |-> Get(company, "name", Str(Unknown)),
                              Website |-> Get(company, "url", Str(NA)),
                              Description |-> Shorten(description.s),
                              Summary |-> Shorten(summary.s),
                              Technologies |->
                                  IF technologies.t = "list"
                                  THEN Join(CommaSpace, technologies.l)
                                  ELSE Join(CommaSpace, [i \in 1..Len(technologies.s) |->
                                                            <<technologies.s[i]>>]),
                              TeamSize |-> Get(metadata.d, "team_size", MStr(NA)),
                              Founded |-> Get(metadata.d, "founded", MStr(NA))]]

\* ComparisonAgent.create_comparison_table
create_comparison_table(company_data) ==
    LET rows == [i \in 1..Len(company_data) |-> RowOf(company_data[i])]
    IN IF \E i \in 1..Len(company_data) : rows[i].raises
       THEN Outcome(NoValue, TRUE, <<>>, <<>>)
       ELSE Outcome(DataFrame(Columns, [i \in 1..Len(company_data) |-> rows[i].row]),
                    FALSE, <<>>, <<>>)

Report(c, a, t) ==
    [t |-> "report", competitors |-> c, analysis |-> a, comparison_table |-> t]

\* CompetitorIntelligenceTeam.generate_intelligence_report; the events
\* also tell which of generate_analysis_report and create_comparison_table
\* it called
generate_intelligence_report(agent, records, backend) ==
    IF Len(records) = 0
    THEN AgentOutcome(agent, Report(<<>>, Dict(EmptyMap), DataFrame(<<>>, <<>>)),
                      FALSE, <<>>, <<>>)
    ELSE LET a == IF agent.client = "None"
                  THEN AgentOutcome(agent, _generate_mock_report, FALSE,
                                    <<Signal("error", "Analysis agent not configured. Please check API keys in sidebar.")>>,
                                    <<>>)
                  ELSE LET g == generate_analysis_report(agent, records, backend)
                       IN [g EXCEPT !.events =
                              <<Event("generate_analysis_report", agent.provider, Len(records), NoCrawl)>>
                              \o g.events]
             c == create_comparison_table(records)
             e == Append(a.events, Event("create_comparison_table", "", Len(records), NoCrawl))
         IN IF a.raised
            THEN AgentOutcome(a.self, NoValue, TRUE, a.st, a.events)
            ELSE IF c.raised
            THEN AgentOutcome(a.self, NoValue, TRUE, a.st, e)
            ELSE AgentOutcome(a.self, Report(records, a.ret, c.ret), FALSE, a.st, e)

\* records differing from BaseRecord in one field
AssembleRecords ==
    {BaseRecord, BareRecord}
    \cup {[BaseRecord EXCEPT !["description"] = d] :
             d \in {Str(Chars(TruncLen)), Str(Chars(TruncLen + 1)),
                    Str(Chars(2 * TruncLen + 50)), NoneField}}
    \cup {[BaseRecord EXCEPT !["metadata"] = d] :
             d \in {NoneField,
                    MetaDict([j \in {"technologies"} |-> MNone]),
                    MetaDict([j \in {"technologies"} |-> MStr(<<"G", "o">>)])}}

\* what the backend may do during generate_intelligence_report: raise,
\* answer with text that holds no JSON, with '{}', with a complete object
\* or with an object holding one key
AssembleBackends ==
    {[kind |-> "raise", text |-> <<>>],
     [kind |-> "text", text |-> <<NOISE>>],
     [kind |-> "text", text |-> <<LB, RB>>],
     [kind |-> "text", text |-> ObjectText([k \in RequiredKeySet |-> ListX])],
     [kind |-> "text", text |-> ObjectText([k \in {"strengths"} |-> ListX])]}

\* a call of generate_intelligence_report(records); the backend is drawn
\* only when the call reaches it
Assemble ==
    /\ pc = "idle"
    /\ \E records \in SeqsUpTo(AssembleRecords, MaxRecords) :
          /\ op' = [name |-> "assemble", args |-> records]
          /\ \E backend \in IF Len(records) = 0 \/ NotConfigured(analysis_agent)
                            THEN {[kind |-> "none", text |-> <<>>]}
                            ELSE AssembleBackends :
                LET out == generate_intelligence_report(analysis_agent, records, backend)
                IN /\ Returns(out)
                   /\ analysis_agent' = out.self
    /\ UNCHANGED <<backendLog, competitors, enriched_competitors, idx>>

NextAssemble == Configure \/ Assemble \/ Return

\* generate_intelligence_report under configuration
SpecAssemble == Init /\ [][NextAssemble]_vars

\* the records handed to create_comparison_table on its own: those of
\* AssembleRecords, and BaseRecord with an empty summary and with a summary
\* one character over the budget
CompareRecords ==
    AssembleRecords
    \cup {[BaseRecord EXCEPT !["summary"] = d] :
             d \in {Str(<<>>), Str(Chars(TruncLen + 1))}}

\* a call of comparison_agent.create_comparison_table(company_data)
Compare ==
    /\ pc = "idle"
    /\ \E company_data \in SeqsUpTo(CompareRecords, MaxRecords) :
          /\ op' = [name |-> "compare", args |-> company_data]
          /\ Returns(create_comparison_table(company_data))
    /\ UNCHANGED <<analysis_agent, backendLog, competitors, enriched_competitors, idx>>

NextCompare == Compare \/ Return

\* create_comparison_table called again and again
SpecCompare == Init /\ [][NextCompare]_vars

----------------------------------------------------------------------------
(* Properties of AnalysisAgent.generate_analysis_report *)

\* generate_analysis_report has returned to its caller
GenerateDone == pc = "done" /\ op.name = "generate"

\* the backend call of the generate call that has returned (when one was made)
Dispatched == events # <<>> /\ events[1].e = "backend"

\* a value with exactly the seven required keys, each a non-empty list
FullyShaped(v) ==
    /\ v.t = "dict"
    /\ DOMAIN v.m = RequiredKeySet
    /\ \A k \in RequiredKeySet : v.m[k].t = "list" /\ v.m[k].items # <<>>

\* C1: whatever the state of the client, the records and the backend's
\* behaviour, the value generate returns has exactly the seven required
\* keys and each maps to a non-empty sequence.
C1_GenerateFullyShaped ==
    GenerateDone => ~raised /\ FullyShaped(ret)

\* C2: on an unconfigured client (no backend client object) generate returns
\* the mock report, whatever the records, and makes no backend call.
C2_UnconfiguredReturnsMock ==
    (GenerateDone /\ analysis_agent.client = "None")
        => ret = _generate_mock_report /\ ~raised /\ events = <<>>

C2_Witness ==
    /\ GenerateDone
    /\ analysis_agent.client = "None"
    /\ Len(op.args) = 2
    /\ ret = _generate_mock_report

\* the response object of a text: what the text parses to, directly or
\* through the brace extraction, when that is an object
ParsesToObject(text) == _parse_llm_response(text).t = "dict"

\* the report repaired from a parsed object: its own values, and ["N/A"]
\* under each required key it lacks
Repaired(m) ==
    Dict([k \in DOMAIN m \cup RequiredKeySet |->
            IF k \in DOMAIN m THEN m[k] ELSE Flat("list", <<"N/A">>)])

\* the backend answered with a text that parses to an object holding a
\* proper subset of the required keys (and no other key)
ProperSubsetResponse ==
    /\ GenerateDone
    /\ Dispatched
    /\ events[1].res.kind = "text"
    /\ ParsesToObject(events[1].res.text)
    /\ DOMAIN _parse_llm_response(events[1].res.text).m \subseteq RequiredKeySet
    /\ DOMAIN _parse_llm_response(events[1].res.text).m # RequiredKeySet

\* C3: on a ready client, a response that parses to an object holding a
\* proper subset of the required keys (one key, or none at all) yields the
\* repaired report and not the mock report.
C3_ProperSubsetRepaired ==
    ProperSubsetResponse
        => /\ ret = Repaired(_parse_llm_response(events[1].res.text).m)
           /\ ret # _generate_mock_report
           /\ ~raised

\* the text cannot be parsed as JSON, neither as it is nor after the
\* extraction of the span from its first "{" to its last "}"
Unparsable(text) ==
    /\ ~JsonLoads(text).ok
    /\ \/ ~BraceSearch(text).found
       \/ ~JsonLoads(BraceSearch(text).group).ok

\* the backend call raised or answered with an unparsable text
BackendFailed ==
    /\ GenerateDone
    /\ Dispatched
    /\ \/ events[1].res.kind = "raise"
       \/ events[1].res.kind = "text" /\ Unparsable(events[1].res.text)

\* C4: on a ready client, when the backend call raises or its text cannot
\* be parsed directly or after the brace extraction, generate returns
\* exactly the mock report and raises nothing.
C4_FailureReturnsMock ==
    BackendFailed => ret = _generate_mock_report /\ ~raised

\* a text with braces whose extracted span does not parse either
C4_Witness ==
    /\ BackendFailed
    /\ events[1].res.kind = "text"
    /\ BraceSearch(events[1].res.text).found
    /\ ret = _generate_mock_report

\* C5: a generate call leaves the client as it was, so a ready client stays
\* ready after a call that failed, and every generate call on a ready
\* client, also one that follows a failed call, goes to the backend.
C5_ReadyStaysReady ==
    [][(pc = "idle" /\ pc' = "done" /\ op'.name = "generate")
         => /\ analysis_agent' = analysis_agent
            /\ analysis_agent.client # "None"
                 => /\ analysis_agent'.client # "None"
                    /\ events' # <<>>
                    /\ events'[1].e = "backend"]_vars

\* a second generate call on the same client went to the backend after the
\* first one had failed
C5_Witness ==
    /\ GenerateDone
    /\ Dispatched
    /\ Len(backendLog) = 2
    /\ backendLog[1] = "failed"
    /\ analysis_agent.client # "None"

\* the positions of the braces of a text made of text without braces, one
\* object and text without braces again (the empty set for any other text)
WrappedAt(text) ==
    {b \in (1..Len(text)) \X (1..Len(text)) :
        /\ b[1] < b[2]
        /\ b[1] > 1 \/ b[2] < Len(text)
        /\ text[b[1]].tk = "lb"
        /\ text[b[2]].tk = "rb"
        /\ \A i \in 1..Len(text) :
              text[i].tk = (CASE i < b[1] \/ i > b[2] -> "noise"
                              [] i = b[1] -> "lb"
                              [] i = b[2] -> "rb"
                              [] OTHER -> "member")}

\* the object inside a wrapped text, as a text of its own
Unwrapped(text) ==
    LET b == CHOOSE c \in WrappedAt(text) : TRUE IN SubSeq(text, b[1], b[2])

\* the backend answered with a complete JSON object between a prefix and a
\* suffix that hold no braces, at least one of the two not empty
WrappedCompleteResponse ==
    /\ GenerateDone
    /\ Dispatched
    /\ events[1].res.kind = "text"
    /\ WrappedAt(events[1].res.text) # {}
    /\ RequiredKeySet \subseteq
          {Unwrapped(events[1].res.text)[i].k :
              i \in 2..(Len(Unwrapped(events[1].res.text)) - 1)}

----------------------------------------------------------------------------
(* Properties of discover_competitors *)

\* the positions in events of the events of kind e about candidate i
EventsOf(e, i) == {j \in 1..Len(events) : events[j].e = e /\ events[j].who = i}

\* discover_competitors has called the search provider and got a list
HasSearched ==
    /\ op.name = "discover"
    /\ \E j \in 1..Len(events) : events[j].e = "search" /\ events[j].res.kind = "list"

\* the candidate list as the search provider returned it
Candidates ==
    events[CHOOSE j \in 1..Len(events) : events[j].e = "search"].res.list

HasUrl(c) == "url" \in DOMAIN c /\ c["url"].t = "str" /\ c["url"].s # <<>>

NoMetadata == MetaDict(EmptyMeta)

\* r is candidate c (the one at position i) as the loop must leave it
EnrichedAs(r, c, i) ==
    /\ DOMAIN r = DOMAIN c \cup {"summary", "metadata"}
    /\ \A k \in DOMAIN c \ {"summary", "metadata"} : r[k] = c[k]
    /\ IF HasUrl(c)
       THEN /\ Cardinality(EventsOf("crawl", i)) = 1
            /\ LET res == events[CHOOSE j \in EventsOf("crawl", i) : TRUE].res
               IN IF res.kind = "raise"
                  THEN r["summary"] = Str(CrawlingFailed) /\ r["metadata"] = NoMetadata
                  ELSE /\ r["summary"] = Str(res.summary)
                       /\ r["metadata"] = IF "metadata" \in DOMAIN res.data
                                          THEN res.data["metadata"]
                                          ELSE NoMetadata
       ELSE /\ EventsOf("crawl", i) = {}
            /\ r["summary"] = Str(NoUrlProvided)
            /\ r["metadata"] = NoMetadata

\* C6: whatever the candidate list and whichever crawls fail, no exception
\* leaves the enrichment loop and the output has the candidates in their
\* order, each with "Crawling failed" and empty metadata when its crawl
\* raised, "No URL provided", empty metadata and no crawl call when it has no
\* URL, and the crawler's summary and metadata otherwise.
C6_EnrichmentTotal ==
    HasSearched
        => /\ ~raised
           /\ pc = "done"
                => /\ ret.t = "list"
                   /\ Len(ret.items) = Len(Candidates)
                   /\ \A i \in 1..Len(Candidates) :
                          EnrichedAs(ret.items[i], Candidates[i], i)

\* three candidates with URLs, the crawl of the second raised, the first and
\* the third carry the crawler's summary
C6_Witness ==
    /\ HasSearched
    /\ pc = "done"
    /\ Len(ret.items) = 3
    /\ \A i \in 1..3 : HasUrl(Candidates[i])
    /\ ret.items[1]["summary"] = Str(Chars(7))
    /\ ret.items[2]["summary"] = Str(CrawlingFailed)
    /\ ret.items[3]["summary"] = Str(Chars(7))

\* the loop of discover_competitors has been entered
InLoop == HasSearched /\ Len(Candidates) >= 1

ProgressIdx == {j \in 1..Len(events) : events[j].e = "progress"}

\* the progress fractions never decrease, the last one of a finished call is
\* 1.0, and the signal of candidate i carries the fraction i/n and a label
\* naming candidate i
ProgressShape ==
    /\ \A j, k \in ProgressIdx : j < k => FracLeq(events[j].arg.frac, events[k].arg.frac)
    /\ pc = "done"
         => LET last == CHOOSE j \in ProgressIdx : \A k \in ProgressIdx : k <= j
            IN events[last].arg.frac[1] = events[last].arg.frac[2]
    /\ \A j \in ProgressIdx :
          events[j].who >= 1
            => /\ events[j].arg.frac = <<events[j].who, Len(Candidates)>>
               /\ events[j].arg.msg =
                     CrawlingLabel(Get(Candidates[events[j].who], "name", Str(Unknown)),
                                   events[j].who, Len(Candidates))

C9_NoOperationRaises == pc = "done" => ~raised

\* the text starts with http:// or https://
HasHttpPrefix(s) ==
    \E p \in {<<"h", "t", "t", "p", ":", "/", "/">>,
              <<"h", "t", "t", "p", "s", ":", "/", "/">>} :
        \A i \in 1..Len(p) : i <= Len(s) /\ s[i] = p[i]

\* discover_competitors(input_text, is_url=True) with a text lacking the scheme
BadUrlCall ==
    /\ op.name = "discover"
    /\ op.args.is_url
    /\ ~HasHttpPrefix(op.args.input_text.s)

\* C10: discover with is_url and an input that does not start with http://
\* or https:// returns an empty sequence, signals the invalid input, calls
\* neither the crawler nor the search provider and raises nothing.
C10_InvalidUrlRejected ==
    BadUrlCall
        => /\ pc = "done"
           /\ ret = Val("list", <<>>)
           /\ ~raised
           /\ events = <<>>
           /\ st = <<Signal("error", "Invalid URL provided. Please include http:// or https://")>>

\* the scheme inside the text, not at its start
C10_Witness ==
    /\ BadUrlCall
    /\ pc = "done"
    /\ Len(op.args.input_text.s) = 9
    /\ op.args.input_text.s[1] = "x"
    /\ ret = Val("list", <<>>)

----------------------------------------------------------------------------
(* Properties of generate_intelligence_report *)

\* no call of generate_analysis_report, of a backend or of
\* create_comparison_table was made
NothingInvoked == events = <<>>

\* C8: on an empty list generate_intelligence_report returns a report with
\* no competitors, a placeholder analysis holding all seven required keys
\* and an empty comparison table, and invokes neither
\* generate_analysis_report, nor a backend, nor create_comparison_table.
C8_EmptyAssembleShaped ==
    (pc = "done" /\ op.name = "assemble" /\ op.args = <<>>)
        => /\ ~raised
           /\ ret.competitors = <<>>
           /\ ret.analysis.t = "dict"
           /\ RequiredKeySet \subseteq DOMAIN ret.analysis.m
           /\ ret.comparison_table.rows = <<>>
           /\ NothingInvoked

----------------------------------------------------------------------------
(* Properties of create_comparison_table *)

\* the record has the fields of a CompetitorRecord with the types the
\* projection expects: text under description and summary when present, and
\* a metadata dict whose technologies is a list
WellTyped(company) ==
    /\ Get(company, "description", Str(NA)).t = "str"
    /\ Get(company, "summary", Str(NA)).t = "str"
    /\ Get(company, "metadata", MetaDict(EmptyMeta)).t = "dict"
    /\ Get(Get(company, "metadata", MetaDict(EmptyMeta)).d, "technologies",
           MList(<<NA>>)).t = "list"

\* the text as the claim displays it: unchanged within the budget, else its
\* first 100 characters and the ellipsis marker
Displayed(s) ==
    IF Len(s) <= TruncLen THEN s ELSE SubSeq(s, 1, TruncLen) \o Ellipsis

\* C11: create_comparison_table emits one row per record, in input order;
\* the Description and Summary of a row are the record's text unchanged when
\* it has at most 100 characters and its first 100 characters followed by
\* "..." (103 characters) only when it is longer; on an empty list the table
\* has zero rows and the fixed seven columns.
C11_RowsTruncatedWhenLong ==
    (pc = "done" /\ op.name = "compare" /\ \A i \in 1..Len(op.args) : WellTyped(op.args[i]))
        => /\ ~raised
           /\ ret.columns = Columns
           /\ Len(ret.rows) = Len(op.args)
           /\ \A i \in 1..Len(op.args) :
                 /\ ret.rows[i].Company = Get(op.args[i], "name", Str(Unknown))
                 /\ ret.rows[i].Description =
                       Displayed(Get(op.args[i], "description", Str(NA)).s)
                 /\ ret.rows[i].Summary =
                       Displayed(Get(op.args[i], "summary", Str(NA)).s)

----------------------------------------------------------------------------
(* Properties of AnalysisAgent.__init__ and configure_agents *)

\* configure_agents has returned to its caller
ConfigureDone == pc = "done" /\ op.name = "configure"

\* C12: after construction the client is unconfigured (holds no backend
\* client object) exactly when the api key is missing, the model id is
\* missing, its provider is not one of openai, anthropic, google and
\* deepseek, or building the backend client raised; otherwise it is ready.
\* The construction raises nothing, and the agent a team holds before
\* configure_agents is called is unconfigured.
C12_UnconfiguredExactlyWhen ==
    /\ ConfigureDone
         => /\ ~raised
            /\ analysis_agent.api_key = op.args.llm_api_key
            /\ analysis_agent.model_id = op.args.llm_model_id
            /\ analysis_agent.client = "None"
                 <=> \/ ~Truthy(op.args.llm_api_key)
                     \/ ~Truthy(op.args.llm_model_id)
                     \/ analysis_agent.provider
                            \notin {"openai", "anthropic", "google", "deepseek"}
                     \/ op.args.ctor_raises
    /\ analysis_agent = DefaultAnalysisAgent => analysis_agent.client = "None"

\* a ready deepseek client next to the failed construction of one
C12_Witness ==
    /\ ConfigureDone
    /\ op.args.llm_provider = "deepseek"
    /\ ~op.args.ctor_raises
    /\ analysis_agent.client = "AzureOpenAI"
    /\ st = <<>>

----------------------------------------------------------------------------
(* Properties of the start of discover_competitors *)

DiscoverCalled == op.name = "discover"

InsufficientInput ==
    Signal("error", "Cannot search for competitors without a description or URL.")

Signalled(sig) == \E j \in 1..Len(st) : st[j] = sig

\* the crawl data holds a non-empty text under key k
HoldsText(data, k) == k \in DOMAIN data /\ data[k].t = "str" /\ data[k].s # <<>>

\* the description discover derives is empty: the input text itself is
\* empty, or the caller's URL was crawled and the data holds neither a
\* description nor a title
DescriptionEmpty ==
    \/ ~op.args.is_url /\ op.args.input_text.s = <<>>
    \/ /\ op.args.is_url
       /\ events # <<>>
       /\ events[1].e = "crawl"
       /\ events[1].who = 0
       /\ events[1].res.kind = "data"
       /\ ~HoldsText(events[1].res.data, "description")
       /\ ~HoldsText(events[1].res.data, "title")

SearchIdx == {j \in 1..Len(events) : events[j].e = "search"}

\* C14: discover signals InsufficientInput exactly when the derived
\* description is empty (no URL and an empty input, or a URL whose crawl
\* yields neither description nor title); it then returns an empty list and
\* never calls the search provider.  Without a URL and with a non-empty
\* input it never signals InsufficientInput and calls the search provider
\* with the input text as the description.
C14_InsufficientExactlyWhenEmpty ==
    DiscoverCalled
        => /\ Signalled(InsufficientInput) <=> DescriptionEmpty
           /\ DescriptionEmpty
                 => /\ pc = "done"
                    /\ ret = Val("list", <<>>)
                    /\ ~raised
                    /\ SearchIdx = {}
           /\ (~op.args.is_url /\ op.args.input_text.s # <<>>)
                 => /\ ~Signalled(InsufficientInput)
                    /\ SearchIdx = {1}
                    /\ events[1].arg = op.args.input_text

\* a URL whose crawl gave an empty description and no title
C14_Witness ==
    /\ DiscoverCalled
    /\ op.args.is_url
    /\ DescriptionEmpty
    /\ "description" \in DOMAIN events[1].res.data
    /\ Len(st) = 2
    /\ st[2] = InsufficientInput

\* the search provider returned an empty candidate list
EmptySearch == HasSearched /\ Candidates = <<>>

\* no candidate was crawled or updated
NoCandidateTouched ==
    \A j \in 1..Len(events) : events[j].e \in {"crawl", "attach"} => events[j].who = 0

\* C15 as claimed: on an empty candidate list discover emits exactly one
\* progress signal, the terminal one with fraction 1.0, crawls no candidate
\* and returns an empty sequence.
C15_OneTerminalSignal ==
    EmptySearch
        => /\ pc = "done"
           /\ ret = Val("list", <<>>)
           /\ ~raised
           /\ NoCandidateTouched
           /\ Cardinality(ProgressIdx) = 1
           /\ \A j \in ProgressIdx : events[j].arg.frac = One

\* C15 as the code has it: on an empty candidate list discover emits two
\* progress signals right after the search, the opening one with fraction
\* 0.0 and then the terminal one with fraction 1.0 and the text "No
\* competitors found to crawl.", crawls no candidate and returns an empty
\* sequence.
C15_OpeningThenTerminalSignal ==
    EmptySearch
        => /\ pc = "done"
           /\ ret = Val("list", <<>>)
           /\ ~raised
           /\ NoCandidateTouched
           /\ LET j == CHOOSE i \in SearchIdx : TRUE
              IN /\ SearchIdx = {j}
                 /\ ProgressIdx = {j + 1, j + 2}
                 /\ Len(events) = j + 2
                 /\ events[j + 1].arg.frac = <<0, 1>>
                 /\ events[j + 2].arg.frac = One
                 /\ events[j + 2].arg.msg = FixedLabel("No competitors found to crawl.")
                 /\ SubSeq(st, Len(st) - 1, Len(st)) = <<events[j + 1].arg, events[j + 2].arg>>

\* an empty candidate list for a description taken from the caller's URL
C15_Witness ==
    /\ EmptySearch
    /\ pc = "done"
    /\ op.args.is_url
    /\ Len(events) = 4
    /\ ret = Val("list", <<>>)

====
